---- MODULE Spec2Model ----
(***************************************************************************)
(* A model of the vl CSV viewer: the streaming table formatter             *)
(* (vl/formatter.py), the command line entry point (vl/cli.py) and the     *)
(* pager wrapper (vl/pager.py).                                            *)
(*                                                                         *)
(* Text is modelled as sequences of one-character strings, so that the     *)
(* length of a rendered line is the length Python's len() reports.  The    *)
(* box-drawing characters of the grid style are written "U+2500" etc. and  *)
(* the escape character of the ANSI sequences is written "ESC"; each is    *)
(* one element, i.e. one character.                                        *)
(***************************************************************************)
EXTENDS Integers, Sequences, FiniteSets, TLC

VARIABLES
    entry,          \* what started the render: the console script "vl" or
                    \* "vll", or a call of the module's function "view_csv"
    header,         \* CSVViewer.header
    min_col_width,  \* CSVViewer.min_col_width
    max_col_width,  \* CSVViewer.max_col_width (0 stands for None: both are falsy)
    border_style,   \* CSVViewer.border_style
    use_colors,     \* CSVViewer.use_colors
    column_colors,  \* CSVViewer.column_colors
    terminal,       \* environment: the terminal of the process, a record
                    \* [query, columns, lines]; query is "ok" when the
                    \* terminal answers and "unavailable" when it does not
    term_height,    \* CSVViewer.term_height
    term_width,     \* CSVViewer.term_width
    pc,             \* position of the control flow
    pulled,         \* history: the rows the reader has yielded so far, in order
    readerDone,     \* the reader generator is exhausted (StopIteration was raised)
    col_widths,     \* col_widths of _calculate_initial_col_widths / view_csv
    preview_rows,   \* rows_buffer of the planner, preview_rows of view_csv
    idx,            \* loop index: i of the planner's enumerate, i of the preview loop
    row_count,      \* row_count of view_csv
    out,            \* the output sink: one record per print() that succeeded
    err,            \* what was printed to stderr, in order
    exc,            \* the exception in flight ("none" when there is none)
    sigpipe,        \* SIGPIPE of a failed write: "none", "ignored" (Python's default
                    \* disposition), "pending" (sigpipe_handler has yet to run), "handled"
    exit_code,      \* return value of cli.main (-1: not returned)
    final_code,     \* return value of the entry point (-1: not returned)
    stdoutRedirected, \* sys.stdout is the pager's stdin
    handlerInstalled, \* SIGPIPE is bound to sigpipe_handler
    call            \* SpecFmt: the last direct call of a formatter method

vars == << entry, header, min_col_width, max_col_width, border_style, use_colors,
           column_colors, terminal, term_height, term_width, pc, pulled, readerDone, col_widths, preview_rows, idx,
           row_count, out, err, exc, sigpipe, exit_code, final_code,
           stdoutRedirected, handlerInstalled, call >>

config == << entry, header, min_col_width, max_col_width, border_style, use_colors,
             column_colors, terminal, term_height, term_width >>

-----------------------------------------------------------------------------
(* Bounds of the model *)

\* Longest row source that is enumerated.
MaxRows == 4

\* The preview cap: num_preview_rows of _calculate_initial_col_widths.  The
\* program's value is 100; the model scales it down so that sources both
\* shorter and longer than the cap are enumerated.
num_preview_rows == 2

\* Most columns of a width plan handed directly to the row renderer.
MaxCols == 3

-----------------------------------------------------------------------------
(* Helpers on text *)

Max(a, b) == IF a >= b THEN a ELSE b
Min(a, b) == IF a <= b THEN a ELSE b

\* c * n for a one-character string c
Repeat(c, n) == [k \in 1..Max(0, n) |-> c]

RECURSIVE Join(_, _)
\* sep.join(parts)
Join(parts, sep) ==
    IF Len(parts) = 0 THEN << >>
    ELSE IF Len(parts) = 1 THEN parts[1]
    ELSE parts[1] \o sep \o Join(Tail(parts), sep)

\* s[:k] with Python's meaning of a negative k
PySliceTo(s, k) ==
    IF k >= 0 THEN SubSeq(s, 1, Min(k, Len(s)))
    ELSE SubSeq(s, 1, Max(0, Len(s) + k))

\* f"{s:<{width}}": s padded on the right with spaces, never shortened
PadLeftAligned(s, width) == s \o Repeat(" ", width - Len(s))

Digit(d) == CASE d = 0 -> "0" [] d = 1 -> "1" [] d = 2 -> "2" [] d = 3 -> "3"
              [] d = 4 -> "4" [] d = 5 -> "5" [] d = 6 -> "6" [] d = 7 -> "7"
              [] d = 8 -> "8" [] d = 9 -> "9"

RECURSIVE IntToStr(_)
\* str(n) for n >= 0, as the f-string of the summary formats row_count
IntToStr(n) == IF n < 10 THEN << Digit(n) >>
               ELSE IntToStr(n \div 10) \o << Digit(n % 10) >>

-----------------------------------------------------------------------------
(* CSVViewer: class constants *)

ESC == "ESC"

COLORS ==
    [ reset      |-> << ESC, "[", "0", "m" >>,
      black      |-> << ESC, "[", "3", "0", "m" >>,
      red        |-> << ESC, "[", "3", "1", "m" >>,
      green      |-> << ESC, "[", "3", "2", "m" >>,
      yellow     |-> << ESC, "[", "3", "3", "m" >>,
      blue       |-> << ESC, "[", "3", "4", "m" >>,
      magenta    |-> << ESC, "[", "3", "5", "m" >>,
      cyan       |-> << ESC, "[", "3", "6", "m" >>,
      white      |-> << ESC, "[", "3", "7", "m" >>,
      bg_black   |-> << ESC, "[", "4", "0", "m" >>,
      bg_red     |-> << ESC, "[", "4", "1", "m" >>,
      bg_green   |-> << ESC, "[", "4", "2", "m" >>,
      bg_yellow  |-> << ESC, "[", "4", "3", "m" >>,
      bg_blue    |-> << ESC, "[", "4", "4", "m" >>,
      bg_magenta |-> << ESC, "[", "4", "5", "m" >>,
      bg_cyan    |-> << ESC, "[", "4", "6", "m" >>,
      bg_white   |-> << ESC, "[", "4", "7", "m" >> ]

DEFAULT_COLUMN_COLORS == << "bg_cyan", "bg_white" >>

styles ==
    [ simple  |-> [ h |-> "-", v |-> "|", tl |-> "+", tr |-> "+", bl |-> "+",
                    br |-> "+", lc |-> "+", rc |-> "+", tc |-> "+", bc |-> "+",
                    c |-> "+" ],
      grid    |-> [ h |-> "U+2500", v |-> "U+2502", tl |-> "U+250C",
                    tr |-> "U+2510", bl |-> "U+2514", br |-> "U+2518",
                    lc |-> "U+251C", rc |-> "U+2524", tc |-> "U+252C",
                    bc |-> "U+2534", c |-> "U+253C" ],
      minimal |-> [ h |-> "U+2500", v |-> " ", tl |-> " ", tr |-> " ", bl |-> " ",
                    br |-> " ", lc |-> " ", rc |-> " ", tc |-> " ", bc |-> " ",
                    c |-> " " ],
      none    |-> [ h |-> " ", v |-> " ", tl |-> " ", tr |-> " ", bl |-> " ",
                    br |-> " ", lc |-> " ", rc |-> " ", tc |-> " ", bc |-> " ",
                    c |-> " " ] ]

\* Faulty variant: the lookup misses the entry of 'none' and falls back to simple.
GetBorderCharsWithoutNone(style) ==
    IF style \in DOMAIN styles \ { "none" } THEN styles[style]
    ELSE styles["simple"]

\* styles.get(self.border_style, styles['simple'])
_get_border_chars(style) ==
    IF style \in DOMAIN styles THEN styles[style] ELSE styles["simple"]

\* self.border_chars, set once by __init__
border_chars == _get_border_chars(border_style)

-----------------------------------------------------------------------------
(* CSVViewer: the terminal metrics *)

\* shutil.get_terminal_size() of the standard library, called at line 83 with
\* no argument: the named tuple (columns, lines) of the terminal, and its own
\* fallback (80, 24) when the terminal cannot be queried.  It does not raise.
shutil_get_terminal_size(t) ==
    IF t.query = "ok" THEN << t.columns, t.lines >> ELSE << 80, 24 >>

\* "height, width = shutil.get_terminal_size()" unpacks the tuple in its own
\* order: height is bound to its first component and width to its second.
\* The except branch (return 24, 80) is taken only if the query raises.
_get_terminal_size(t) ==
    IF t.query = "raises" THEN << 24, 80 >>
    ELSE LET size == shutil_get_terminal_size(t)
         IN  << size[1], size[2] >>

\* Line 70 of __init__: self.term_height, self.term_width = self._get_terminal_size()
Constructed ==
    /\ term_height = _get_terminal_size(terminal)[1]
    /\ term_width = _get_terminal_size(terminal)[2]

-----------------------------------------------------------------------------
(* CSVViewer: the width planner's loop body and its clamps *)

\* One pass of the inner loop "for j, cell in enumerate(row)" over a row.
UpdateColWidths(widths, row) ==
    [ j \in 1..Max(Len(widths), Len(row)) |->
        IF j > Len(widths) THEN Len(row[j])
        ELSE IF j > Len(row) THEN widths[j]
        ELSE Max(widths[j], Len(row[j])) ]

\* Faulty variant: the maximum is applied first and the minimum last, so the
\* minimum wins when the maximum is below it.
ApplyWidthConstraintsMinimumLast(widths) ==
    LET atMost == [ j \in 1..Len(widths) |->
                      IF max_col_width # 0 THEN Min(widths[j], max_col_width)
                      ELSE widths[j] ]
    IN  [ j \in 1..Len(widths) |-> Max(min_col_width, atMost[j]) ]

\* The min/max constraints applied after the preview loop.
ApplyWidthConstraints(widths) ==
    LET atLeast == [ j \in 1..Len(widths) |-> Max(min_col_width, widths[j]) ]
    IN  IF max_col_width # 0
        THEN [ j \in 1..Len(widths) |-> Min(atLeast[j], max_col_width) ]
        ELSE atLeast

-----------------------------------------------------------------------------
(* CSVViewer: the row renderer *)

\* Faulty variant: the ellipsis is added to width characters, not to width - 3.
TruncateCellKeepsWidthCharacters(cell, width) ==
    IF width = 0 \/ Len(cell) <= width THEN cell
    ELSE PySliceTo(cell, width) \o << ".", ".", "." >>

_truncate_cell(cell, width) ==
    IF width = 0 \/ Len(cell) <= width THEN cell
    ELSE PySliceTo(cell, width - 3) \o << ".", ".", "." >>

\* Faulty variant: a name that is not in the table falls back to white.
GetColorUnknownIsWhite(col_index) ==
    IF ~use_colors THEN << >>
    ELSE LET color_name == column_colors[(col_index % Len(column_colors)) + 1]
         IN  IF color_name \in DOMAIN COLORS THEN COLORS[color_name]
             ELSE COLORS["white"]

_get_color(col_index) ==
    IF ~use_colors THEN << >>
    ELSE LET color_name == column_colors[(col_index % Len(column_colors)) + 1]
         IN  IF color_name \in DOMAIN COLORS THEN COLORS[color_name] ELSE << >>

\* f" {cell:<{width}} " for column i (0-based, as in the code): the field,
\* truncated when longer than max_col_width, or the empty cell of a short row.
PaddedCell(row, widths, i) ==
    LET cell == IF i < Min(Len(row), Len(widths))
                THEN IF max_col_width # 0 /\ Len(row[i + 1]) > max_col_width
                     THEN _truncate_cell(row[i + 1], max_col_width)
                     ELSE row[i + 1]
                ELSE << >>
    IN  << " " >> \o PadLeftAligned(cell, widths[i + 1]) \o << " " >>

\* Faulty variant: every cell takes the color of column 0.
FormatCellFirstColorOnly(row, widths, i) ==
    IF use_colors
    THEN _get_color(0) \o PaddedCell(row, widths, i) \o COLORS["reset"]
    ELSE PaddedCell(row, widths, i)

\* The cell of column i of a row line, colored when colors are enabled.
FormatCell(row, widths, i) ==
    IF use_colors
    THEN _get_color(i) \o PaddedCell(row, widths, i) \o COLORS["reset"]
    ELSE PaddedCell(row, widths, i)

\* Faulty variant: the second loop is missing, so a short row gets no blank
\* cells for the columns it has no field for.
FormatRowWithoutBlankCells(row, widths) ==
    LET cells == [ k \in 1..Min(Len(row), Len(widths)) |->
                     FormatCell(row, widths, k - 1) ]
        v     == << border_chars["v"] >>
    IN  v \o Join(cells, v) \o v

_format_row(row, widths) ==
    LET cells == [ k \in 1..Len(widths) |-> FormatCell(row, widths, k - 1) ]
        v     == << border_chars["v"] >>
    IN  v \o Join(cells, v) \o v

\* Faulty variant: the horizontal runs leave out the two padding columns.
FormatSeparatorUnpadded(widths, position) ==
    IF border_style = "none" THEN << >>
    ELSE LET parts == [ k \in 1..Len(widths) |->
                          Repeat(border_chars["h"], widths[k]) ]
         IN  CASE position = "top" ->
                    << border_chars["tl"] >> \o Join(parts, << border_chars["tc"] >>)
                        \o << border_chars["tr"] >>
               [] position = "middle" ->
                    << border_chars["lc"] >> \o Join(parts, << border_chars["c"] >>)
                        \o << border_chars["rc"] >>
               [] position = "bottom" ->
                    << border_chars["bl"] >> \o Join(parts, << border_chars["bc"] >>)
                        \o << border_chars["br"] >>
               [] OTHER -> << >>

_format_separator(widths, position) ==
    IF border_style = "none" THEN << >>
    ELSE LET parts == [ k \in 1..Len(widths) |->
                          Repeat(border_chars["h"], widths[k] + 2) ]
         IN  CASE position = "top" ->
                    << border_chars["tl"] >> \o Join(parts, << border_chars["tc"] >>)
                        \o << border_chars["tr"] >>
               [] position = "middle" ->
                    << border_chars["lc"] >> \o Join(parts, << border_chars["c"] >>)
                        \o << border_chars["rc"] >>
               [] position = "bottom" ->
                    << border_chars["bl"] >> \o Join(parts, << border_chars["bc"] >>)
                        \o << border_chars["br"] >>
               [] OTHER -> << >>

-----------------------------------------------------------------------------
(* Inputs: the rows a reader may yield and the configurations of a render *)

CellA    == << "a" >>
CellGlyph == << "x", "|", "-", "+" >>
CellLong == << "a", "b", "c", "d", "e", "f", "g" >>

\* Rows of one, two and three fields, with short and long fields; a row with
\* cell content that looks like border glyphs.
RowSet == { << CellA, CellGlyph >>, << CellLong >>, << CellA, CellA, CellLong >> }

StyleNames == { "simple", "grid", "minimal", "none" }

\* A style name that is none of the four: the console scripts reject it (the
\* choices of -s), a caller of the function view_csv may pass it.
UnknownStyleNames == { "invalid" }

\* The terminal of a render: narrower than the widest table of RowSet.
Terminals == { [ query |-> "ok", columns |-> 20, lines |-> 10 ] }
MinWidths  == { 2, 5 }
MaxWidths  == { 0, 2, 3, 4 }

Line(kind, text, src) == [ kind |-> kind, text |-> text, src |-> src ]

\* print(text, file=self.output_stream) that succeeds: the sink receives text
\* (and the newline print adds).  kind and src are history: which statement
\* printed the line and, for a row line, the position of its row in pulled.
Emit(kind, text, src) == out' = Append(out, Line(kind, text, src))

\* f"\nTotal rows: {row_count}"
SummaryText(n) ==
    << "\n", "T", "o", "t", "a", "l", " ", "r", "o", "w", "s", ":", " " >>
        \o IntToStr(n)

-----------------------------------------------------------------------------
(* Initial states *)

Idle ==
    /\ pulled = << >>
    /\ readerDone = FALSE
    /\ col_widths = << >>
    /\ preview_rows = << >>
    /\ idx = 0
    /\ row_count = 0
    /\ out = << >>
    /\ err = << >>
    /\ exc = "none"
    /\ sigpipe = "none"
    /\ exit_code = -1
    /\ final_code = -1
    /\ stdoutRedirected = FALSE
    /\ handlerInstalled = FALSE
    /\ call = [ fn |-> "none" ]

Init ==
    /\ \/ entry \in { "vl", "vll" } /\ border_style \in StyleNames
       \/ entry = "view_csv" /\ border_style \in UnknownStyleNames
    /\ header \in BOOLEAN
    /\ min_col_width \in MinWidths
    /\ max_col_width \in MaxWidths
    /\ use_colors = FALSE
    /\ column_colors = DEFAULT_COLUMN_COLORS
    /\ terminal \in Terminals
    /\ Constructed
    /\ pc = "main"
    /\ Idle

-----------------------------------------------------------------------------
(* vl/pager.py: main, up to the call of cli.main *)

\* Lines 20-39: the handler is installed, less is started, stdout is
\* redirected and cli.main is called.
PagerStart ==
    /\ pc = "main" /\ entry = "vll"
    /\ handlerInstalled' = TRUE
    /\ stdoutRedirected' = TRUE
    /\ pc' = "cli_main"
    /\ UNCHANGED << config, pulled, readerDone, col_widths, preview_rows, idx,
                    row_count, out, err, exc, sigpipe, exit_code, final_code,
                    call >>

\* The console script vl calls cli.main directly.
CliStart ==
    /\ pc = "main" /\ entry = "vl"
    /\ pc' = "cli_main"
    /\ UNCHANGED << config, pulled, readerDone, col_widths, preview_rows, idx,
                    row_count, out, err, exc, sigpipe, exit_code, final_code,
                    stdoutRedirected, handlerInstalled, call >>

\* The function view_csv of vl/formatter.py called directly: it constructs
\* the viewer and calls its view_csv, which creates the reader generator and
\* enters the planner.
LibraryCallsViewCsv ==
    /\ pc = "main" /\ entry = "view_csv"
    /\ pc' = "plan"
    /\ UNCHANGED << config, pulled, readerDone, col_widths, preview_rows, idx,
                    row_count, out, err, exc, sigpipe, exit_code, final_code,
                    stdoutRedirected, handlerInstalled, call >>

-----------------------------------------------------------------------------
(* vl/cli.py: main, up to the call of view_csv *)

\* Lines 79-122 on the path that reaches viewer.view_csv: the arguments
\* parse, there is input, the viewer is constructed and view_csv creates the
\* reader generator (nothing is read yet) and enters the planner.
CliCallsViewCsv ==
    /\ pc = "cli_main"
    /\ pc' = "plan"
    /\ UNCHANGED << config, pulled, readerDone, col_widths, preview_rows, idx,
                    row_count, out, err, exc, sigpipe, exit_code, final_code,
                    stdoutRedirected, handlerInstalled, call >>

\* parse_args raises SystemExit(2) on a bad command line.
CliParseFails ==
    /\ pc = "cli_main"
    /\ exc' = "SystemExit2"
    /\ pc' = "cli_raised"
    /\ UNCHANGED << config, pulled, readerDone, col_widths, preview_rows, idx,
                    row_count, out, err, sigpipe, exit_code, final_code,
                    stdoutRedirected, handlerInstalled, call >>

\* Lines 83-86: no file and stdin is a terminal.
CliNoInput ==
    /\ pc = "cli_main"
    /\ err' = err \o << "no input", "usage" >>
    /\ exit_code' = 1
    /\ pc' = "cli_returned"
    /\ UNCHANGED << config, pulled, readerDone, col_widths, preview_rows, idx,
                    row_count, out, exc, sigpipe, final_code,
                    stdoutRedirected, handlerInstalled, call >>

-----------------------------------------------------------------------------
(* CSVViewer._calculate_initial_col_widths *)

\* Where an exception that leaves view_csv arrives: at the try of cli.main,
\* or at the caller of the function view_csv, which is not modelled further.
RaisedTo == IF entry = "view_csv" THEN "done" ELSE "cli_raised"

\* An exception leaves view_csv.
Raise(e) ==
    /\ exc' = e
    /\ pc' = RaisedTo

\* Faulty variant: a top border for the empty plan is written before the
\* source is opened.
ReaderOpenFailsAfterTopBorder ==
    /\ pc = "plan" /\ pulled = << >> /\ ~readerDone
    /\ \E e \in { "FileNotFoundError", "PermissionError" } : Raise(e)
    /\ IF border_style # "none"
       THEN Emit("top", _format_separator(col_widths, "top"), 0)
       ELSE UNCHANGED out
    /\ UNCHANGED << config, pulled, readerDone, col_widths, preview_rows, idx,
                    row_count, err, sigpipe, exit_code, final_code,
                    stdoutRedirected, handlerInstalled, call >>

\* The first next() on the reader opens the file; opening fails.
ReaderOpenFails ==
    /\ pc = "plan" /\ pulled = << >> /\ ~readerDone
    /\ \E e \in { "FileNotFoundError", "PermissionError" } : Raise(e)
    /\ UNCHANGED << config, pulled, readerDone, col_widths, preview_rows, idx,
                    row_count, out, err, sigpipe, exit_code, final_code,
                    stdoutRedirected, handlerInstalled, call >>

\* Faulty variant: the test of the loop index is off by one, so the buffer
\* takes one row more than the cap.
PreviewPullBuffersOneMore ==
    /\ pc = "plan" /\ ~readerDone /\ Len(pulled) < MaxRows
    /\ \E row \in RowSet :
        /\ pulled' = Append(pulled, row)
        /\ IF idx > num_preview_rows
           THEN /\ col_widths' = ApplyWidthConstraints(col_widths)
                /\ pc' = "top"
                /\ UNCHANGED << preview_rows, idx >>
           ELSE /\ preview_rows' = Append(preview_rows, row)
                /\ col_widths' = UpdateColWidths(col_widths, row)
                /\ idx' = idx + 1
                /\ pc' = "plan"
    /\ UNCHANGED << config, readerDone, row_count, out, err, exc, sigpipe,
                    exit_code, final_code, stdoutRedirected, handlerInstalled,
                    call >>

\* The preview loop fetches a row: enumerate pulls it from the reader, then
\* the body tests i >= num_preview_rows and breaks, or buffers the row and
\* updates the widths.  After the loop the constraints are applied and the
\* planner returns.
PreviewPull ==
    /\ pc = "plan" /\ ~readerDone /\ Len(pulled) < MaxRows
    /\ \E row \in RowSet :
        /\ pulled' = Append(pulled, row)
        /\ IF idx >= num_preview_rows
           THEN /\ col_widths' = ApplyWidthConstraints(col_widths)
                /\ pc' = "top"
                /\ UNCHANGED << preview_rows, idx >>
           ELSE /\ preview_rows' = Append(preview_rows, row)
                /\ col_widths' = UpdateColWidths(col_widths, row)
                /\ idx' = idx + 1
                /\ pc' = "plan"
    /\ UNCHANGED << config, readerDone, row_count, out, err, exc, sigpipe,
                    exit_code, final_code, stdoutRedirected, handlerInstalled,
                    call >>

\* The reader is exhausted during the preview loop.
PreviewEnd ==
    /\ pc = "plan" /\ ~readerDone
    /\ readerDone' = TRUE
    /\ col_widths' = ApplyWidthConstraints(col_widths)
    /\ pc' = "top"
    /\ UNCHANGED << config, pulled, preview_rows, idx, row_count, out, err, exc,
                    sigpipe, exit_code, final_code, stdoutRedirected,
                    handlerInstalled, call >>

-----------------------------------------------------------------------------
(* CSVViewer.view_csv: the emissions *)

\* A print() to the sink fails: the consumer of the pipe has exited.  The
\* write raises BrokenPipeError; when sigpipe_handler is installed the
\* SIGPIPE the write causes is delivered as well and its Python handler is
\* left to run.
WriteFails ==
    /\ exc' = "BrokenPipeError"
    /\ sigpipe' = IF handlerInstalled THEN "pending" ELSE "ignored"
    /\ pc' = RaisedTo

\* Faulty variant: the top border is written for the four known names only.
EmitTopBorderKnownStylesOnly ==
    /\ pc = "top"
    /\ IF border_style \in DOMAIN styles \ { "none" }
       THEN Emit("top", _format_separator(col_widths, "top"), 0)
       ELSE UNCHANGED out
    /\ pc' = "header"
    /\ UNCHANGED << config, pulled, readerDone, col_widths, preview_rows, idx,
                    row_count, err, exc, sigpipe, exit_code, final_code,
                    stdoutRedirected, handlerInstalled, call >>

\* Lines 257-260.
EmitTopBorder ==
    /\ pc = "top"
    /\ IF border_style # "none"
       THEN Emit("top", _format_separator(col_widths, "top"), 0)
       ELSE UNCHANGED out
    /\ pc' = "header"
    /\ UNCHANGED << config, pulled, readerDone, col_widths, preview_rows, idx,
                    row_count, err, exc, sigpipe, exit_code, final_code,
                    stdoutRedirected, handlerInstalled, call >>

\* Faulty variant: the emptiness of the buffer guards the header line only,
\* so an empty source with header enabled still gets the header separator.
EmitHeaderSeparatorForEmptySource ==
    /\ pc = "header"
    /\ IF header
       THEN /\ IF preview_rows # << >>
               THEN Emit("header", _format_row(preview_rows[1], col_widths), 1)
               ELSE UNCHANGED out
            /\ pc' = "hsep"
            /\ UNCHANGED idx
       ELSE /\ idx' = 0
            /\ pc' = "preview"
            /\ UNCHANGED out
    /\ UNCHANGED << config, pulled, readerDone, col_widths, preview_rows,
                    row_count, err, exc, sigpipe, exit_code, final_code,
                    stdoutRedirected, handlerInstalled, call >>

\* Lines 262-266 and 275-277.
EmitHeader ==
    /\ pc = "header"
    /\ IF preview_rows # << >> /\ header
       THEN /\ Emit("header", _format_row(preview_rows[1], col_widths), 1)
            /\ pc' = "hsep"
            /\ UNCHANGED idx
       ELSE /\ idx' = 0
            /\ pc' = "preview"
            /\ UNCHANGED out
    /\ UNCHANGED << config, pulled, readerDone, col_widths, preview_rows,
                    row_count, err, exc, sigpipe, exit_code, final_code,
                    stdoutRedirected, handlerInstalled, call >>

\* Lines 268-274.
EmitHeaderSeparator ==
    /\ pc = "hsep"
    /\ IF border_style # "none"
       THEN Emit("separator", _format_separator(col_widths, "middle"), 0)
       ELSE UNCHANGED out
    /\ idx' = 1
    /\ pc' = "preview"
    /\ UNCHANGED << config, pulled, readerDone, col_widths, preview_rows,
                    row_count, err, exc, sigpipe, exit_code, final_code,
                    stdoutRedirected, handlerInstalled, call >>

\* Lines 280-282: one pass of the loop over the buffered rows.
EmitPreviewRow ==
    /\ pc = "preview" /\ idx < Len(preview_rows)
    /\ Emit("row", _format_row(preview_rows[idx + 1], col_widths), idx + 1)
    /\ idx' = idx + 1
    /\ UNCHANGED << config, pc, pulled, readerDone, col_widths, preview_rows,
                    row_count, err, exc, sigpipe, exit_code, final_code,
                    stdoutRedirected, handlerInstalled, call >>

\* Faulty variant: the header line is left out of the count.
PreviewLoopEndSkipsHeader ==
    /\ pc = "preview" /\ idx >= Len(preview_rows)
    /\ row_count' = IF header /\ preview_rows # << >>
                    THEN Len(preview_rows) - 1
                    ELSE Len(preview_rows)
    /\ pc' = "tail"
    /\ UNCHANGED << config, pulled, readerDone, col_widths, preview_rows, idx,
                    out, err, exc, sigpipe, exit_code, final_code,
                    stdoutRedirected, handlerInstalled, call >>

\* The loop over the buffered rows ends; line 285.
PreviewLoopEnd ==
    /\ pc = "preview" /\ idx >= Len(preview_rows)
    /\ row_count' = Len(preview_rows)
    /\ pc' = "tail"
    /\ UNCHANGED << config, pulled, readerDone, col_widths, preview_rows, idx,
                    out, err, exc, sigpipe, exit_code, final_code,
                    stdoutRedirected, handlerInstalled, call >>

\* Faulty variant: a row of the tail widens the plan before it is rendered.
TailPullUpdatesPlan ==
    /\ pc = "tail" /\ ~readerDone /\ Len(pulled) < MaxRows
    /\ \E row \in RowSet :
        /\ pulled' = Append(pulled, row)
        /\ col_widths' = UpdateColWidths(col_widths, row)
        /\ Emit("row", _format_row(row, col_widths'), Len(pulled) + 1)
    /\ row_count' = row_count + 1
    /\ UNCHANGED << config, pc, readerDone, preview_rows, idx, err,
                    exc, sigpipe, exit_code, final_code, stdoutRedirected,
                    handlerInstalled, call >>

\* Lines 286-289: the reader yields one more row, which is rendered, printed
\* and counted.
TailPull ==
    /\ pc = "tail" /\ ~readerDone /\ Len(pulled) < MaxRows
    /\ \E row \in RowSet :
        /\ pulled' = Append(pulled, row)
        /\ Emit("row", _format_row(row, col_widths), Len(pulled) + 1)
    /\ row_count' = row_count + 1
    /\ UNCHANGED << config, pc, readerDone, col_widths, preview_rows, idx, err,
                    exc, sigpipe, exit_code, final_code, stdoutRedirected,
                    handlerInstalled, call >>

\* Lines 286-288 when the print fails: the row was pulled and is not written.
TailWriteFails ==
    /\ pc = "tail" /\ ~readerDone /\ Len(pulled) < MaxRows
    /\ \E row \in RowSet : pulled' = Append(pulled, row)
    /\ WriteFails
    /\ UNCHANGED << config, readerDone, col_widths, preview_rows, idx, row_count,
                    out, err, exit_code, final_code, stdoutRedirected,
                    handlerInstalled, call >>

\* The tail loop ends: the reader is, or was already, exhausted.
TailEnd ==
    /\ pc = "tail"
    /\ readerDone' = TRUE
    /\ pc' = "bottom"
    /\ UNCHANGED << config, pulled, col_widths, preview_rows, idx, row_count,
                    out, err, exc, sigpipe, exit_code, final_code,
                    stdoutRedirected, handlerInstalled, call >>

\* Faulty variant: the test of the style is inverted, so no bordered style gets its
\* bottom border.
EmitBottomBorderInverted ==
    /\ pc = "bottom"
    /\ IF border_style = "none"
       THEN Emit("bottom", _format_separator(col_widths, "bottom"), 0)
       ELSE UNCHANGED out
    /\ pc' = "summary"
    /\ UNCHANGED << config, pulled, readerDone, col_widths, preview_rows, idx,
                    row_count, err, exc, sigpipe, exit_code, final_code,
                    stdoutRedirected, handlerInstalled, call >>

\* Lines 291-294.
EmitBottomBorder ==
    /\ pc = "bottom"
    /\ IF border_style # "none"
       THEN Emit("bottom", _format_separator(col_widths, "bottom"), 0)
       ELSE UNCHANGED out
    /\ pc' = "summary"
    /\ UNCHANGED << config, pulled, readerDone, col_widths, preview_rows, idx,
                    row_count, err, exc, sigpipe, exit_code, final_code,
                    stdoutRedirected, handlerInstalled, call >>

\* Line 297, then view_csv returns and cli.main returns 0 (line 124); a
\* direct call of view_csv returns to its caller.
EmitSummary ==
    /\ pc = "summary"
    /\ Emit("summary", SummaryText(row_count), 0)
    /\ IF entry = "view_csv"
       THEN pc' = "done" /\ UNCHANGED exit_code
       ELSE pc' = "cli_returned" /\ exit_code' = 0
    /\ UNCHANGED << config, pulled, readerDone, col_widths, preview_rows, idx,
                    row_count, err, exc, sigpipe, final_code,
                    stdoutRedirected, handlerInstalled, call >>

\* The statement at pc is a print() that is executed.
AtPrint ==
    \/ pc \in { "top", "hsep", "bottom" } /\ border_style # "none"
    \/ pc = "header" /\ preview_rows # << >> /\ header
    \/ pc = "preview" /\ idx < Len(preview_rows)
    \/ pc = "summary"

\* One of the prints of lines 260-297 other than the tail's fails.
EmitFails ==
    /\ AtPrint
    /\ WriteFails
    /\ UNCHANGED << config, pulled, readerDone, col_widths, preview_rows, idx,
                    row_count, out, err, exit_code, final_code,
                    stdoutRedirected, handlerInstalled, call >>

-----------------------------------------------------------------------------
(* vl/cli.py: the except clauses of main *)

IsSystemExit(e) == e \in { "SystemExit0", "SystemExit2" }

\* e.code of a SystemExit
ExitCodeOf(e) == IF e = "SystemExit0" THEN 0 ELSE 2

\* What cli.main prints to stderr for an exception it catches.
CliMessage(e) ==
    CASE e = "FileNotFoundError" -> "Error: File not found"
      [] e = "PermissionError"   -> "Error: Permission denied"
      [] OTHER                   -> "Error: " \o e

\* Faulty variant: the clause of FileNotFoundError reports the error and falls
\* through to the success code.
CliExceptFileNotFoundReturns0 ==
    /\ pc = "cli_raised"
    /\ IF IsSystemExit(exc)
       THEN /\ pc' = "caller_raised"
            /\ UNCHANGED << err, exc, exit_code >>
       ELSE /\ err' = Append(err, CliMessage(exc))
            /\ exit_code' = IF exc = "FileNotFoundError" THEN 0 ELSE 1
            /\ exc' = "none"
            /\ pc' = "cli_returned"
    /\ UNCHANGED << config, pulled, readerDone, col_widths, preview_rows, idx,
                    row_count, out, sigpipe, final_code, stdoutRedirected,
                    handlerInstalled, call >>

\* Lines 126-134: FileNotFoundError, PermissionError and every other
\* Exception (BrokenPipeError is one) are reported on stderr and mapped to 1.
\* SystemExit is no Exception and leaves cli.main.
CliExcept ==
    /\ pc = "cli_raised"
    /\ IF IsSystemExit(exc)
       THEN /\ pc' = "caller_raised"
            /\ UNCHANGED << err, exc, exit_code >>
       ELSE /\ err' = Append(err, CliMessage(exc))
            /\ exit_code' = 1
            /\ exc' = "none"
            /\ pc' = "cli_returned"
    /\ UNCHANGED << config, pulled, readerDone, col_widths, preview_rows, idx,
                    row_count, out, sigpipe, final_code, stdoutRedirected,
                    handlerInstalled, call >>

-----------------------------------------------------------------------------
(* vl/pager.py: sigpipe_handler and the rest of main *)

\* sigpipe_handler: sys.exit(0).  Python runs the handler of a delivered
\* signal at a later bytecode boundary of the main thread: while the
\* BrokenPipeError is still unwinding into cli.main, or after cli.main has
\* handled it and returned to line 39; the calls that follow line 39 do not
\* start before it has run.  The SystemExit it raises replaces the exception
\* in flight and reaches the inner try of pager.main.
SigpipeHandler ==
    /\ sigpipe = "pending" /\ handlerInstalled
    /\ pc \in { "cli_raised", "cli_returned" }
    /\ sigpipe' = "handled"
    /\ exc' = "SystemExit0"
    /\ pc' = "caller_raised"
    /\ UNCHANGED << config, pulled, readerDone, col_widths, preview_rows, idx,
                    row_count, out, err, exit_code, final_code,
                    stdoutRedirected, handlerInstalled, call >>

\* Line 32: less cannot be started.  Popen raises FileNotFoundError, an
\* OSError, which the clause of line 71 (IOError is OSError) maps to 0.
PagerPopenFails ==
    /\ pc = "main" /\ entry = "vll"
    /\ handlerInstalled' = TRUE
    /\ final_code' = 0
    /\ pc' = "finally"
    /\ UNCHANGED << config, pulled, readerDone, col_widths, preview_rows, idx,
                    row_count, out, err, exc, sigpipe, exit_code,
                    stdoutRedirected, call >>

\* Lines 43-46: the flush of the redirected stdout fails and the error is
\* passed over; the SIGPIPE of the failed write is delivered.
PagerFlushFails ==
    /\ pc = "cli_returned" /\ entry = "vll" /\ sigpipe # "pending"
    /\ sigpipe' = "pending"
    /\ UNCHANGED << config, pc, pulled, readerDone, col_widths, preview_rows,
                    idx, row_count, out, err, exc, exit_code, final_code,
                    stdoutRedirected, handlerInstalled, call >>

\* Lines 43-59: flush, restore stdout, close and wait for less, return
\* exit_code.
PagerReturn ==
    /\ pc = "cli_returned" /\ entry = "vll" /\ sigpipe # "pending"
    /\ stdoutRedirected' = FALSE
    /\ final_code' = exit_code
    /\ pc' = "finally"
    /\ UNCHANGED << config, pulled, readerDone, col_widths, preview_rows, idx,
                    row_count, out, err, exc, sigpipe, exit_code,
                    handlerInstalled, call >>

\* Lines 61-64: a SystemExit in the inner try is mapped to its code.
PagerExceptSystemExit ==
    /\ pc = "caller_raised" /\ entry = "vll"
    /\ stdoutRedirected' = FALSE
    /\ final_code' = ExitCodeOf(exc)
    /\ exc' = "none"
    /\ pc' = "finally"
    /\ UNCHANGED << config, pulled, readerDone, col_widths, preview_rows, idx,
                    row_count, out, err, sigpipe, exit_code,
                    handlerInstalled, call >>

\* Faulty variant: the finally clause restores stdout and leaves the signal
\* handler in place.
PagerFinallyKeepsHandler ==
    /\ pc = "finally"
    /\ stdoutRedirected' = FALSE
    /\ pc' = "done"
    /\ UNCHANGED << config, pulled, readerDone, col_widths, preview_rows, idx,
                    row_count, out, err, exc, sigpipe, exit_code, final_code,
                    handlerInstalled, call >>

\* Lines 85-102: the finally clause.
PagerFinally ==
    /\ pc = "finally"
    /\ handlerInstalled' = FALSE
    /\ stdoutRedirected' = FALSE
    /\ pc' = "done"
    /\ UNCHANGED << config, pulled, readerDone, col_widths, preview_rows, idx,
                    row_count, out, err, exc, sigpipe, exit_code, final_code,
                    call >>

\* The console script vl: sys.exit(main()).  The value cli.main returns, or
\* the code of the SystemExit that left it, is the exit code.
CliExit ==
    /\ entry = "vl"
    /\ \/ pc = "cli_returned" /\ final_code' = exit_code
       \/ pc = "caller_raised" /\ final_code' = ExitCodeOf(exc)
    /\ pc' = "done"
    /\ UNCHANGED << config, pulled, readerDone, col_widths, preview_rows, idx,
                    row_count, out, err, exc, sigpipe, exit_code,
                    stdoutRedirected, handlerInstalled, call >>

-----------------------------------------------------------------------------
(* The render: a run of one of the console scripts *)

Next ==
    \/ PagerStart
    \/ PagerPopenFails
    \/ CliStart
    \/ LibraryCallsViewCsv
    \/ CliCallsViewCsv
    \/ CliParseFails
    \/ CliNoInput
    \/ ReaderOpenFails
    \/ PreviewPull
    \/ PreviewEnd
    \/ EmitTopBorder
    \/ EmitHeader
    \/ EmitHeaderSeparator
    \/ EmitPreviewRow
    \/ PreviewLoopEnd
    \/ TailPull
    \/ TailWriteFails
    \/ TailEnd
    \/ EmitBottomBorder
    \/ EmitSummary
    \/ EmitFails
    \/ CliExcept
    \/ SigpipeHandler
    \/ PagerFlushFails
    \/ PagerReturn
    \/ PagerExceptSystemExit
    \/ PagerFinally
    \/ CliExit

Spec == Init /\ [][Next]_vars

-----------------------------------------------------------------------------
(* The row renderer called directly, as the unit tests call it: a viewer is *)
(* constructed, a width plan is at hand, and _format_row and                *)
(* _format_separator are applied to it.                                     *)

FmtStyleNames == StyleNames \cup { "invalid" }
FmtMaxWidths  == 0..5
FmtColorPlans == { DEFAULT_COLUMN_COLORS, << "red", "nosuchcolor", "bg_blue" >> }

\* Greatest field lengths a preview may have recorded, per column.
NaturalPlans ==
    UNION { [ 1..n -> { 0, 3, 7 } ] : n \in 0..MaxCols }

FmtRows ==
    RowSet \cup { << >>, << CellA >>, << CellA, CellGlyph, CellA, CellA >> }

Positions == { "top", "middle", "bottom" }

InitFmt ==
    /\ entry = "vl"
    /\ header = TRUE
    /\ min_col_width \in MinWidths
    /\ max_col_width \in FmtMaxWidths
    /\ border_style \in FmtStyleNames
    /\ use_colors \in BOOLEAN
    /\ column_colors \in FmtColorPlans
    /\ terminal \in Terminals
    /\ Constructed
    /\ pc = "unit"
    /\ pulled = << >>
    /\ readerDone = FALSE
    /\ \E natural \in NaturalPlans : col_widths = ApplyWidthConstraints(natural)
    /\ preview_rows = << >>
    /\ idx = 0
    /\ row_count = 0
    /\ out = << >>
    /\ err = << >>
    /\ exc = "none"
    /\ sigpipe = "none"
    /\ exit_code = -1
    /\ final_code = -1
    /\ stdoutRedirected = FALSE
    /\ handlerInstalled = FALSE
    /\ call = [ fn |-> "none" ]

\* viewer._format_row(row, col_widths)
CallFormatRow ==
    /\ pc = "unit"
    /\ \E row \in FmtRows :
         call' = [ fn |-> "_format_row", row |-> row,
                   ret |-> _format_row(row, col_widths) ]
    /\ UNCHANGED << config, pc, pulled, readerDone, col_widths, preview_rows,
                    idx, row_count, out, err, exc, sigpipe, exit_code,
                    final_code, stdoutRedirected, handlerInstalled >>

\* viewer._format_separator(col_widths, position)
CallFormatSeparator ==
    /\ pc = "unit"
    /\ \E position \in Positions \cup { "other" } :
         call' = [ fn |-> "_format_separator", position |-> position,
                   ret |-> _format_separator(col_widths, position) ]
    /\ UNCHANGED << config, pc, pulled, readerDone, col_widths, preview_rows,
                    idx, row_count, out, err, exc, sigpipe, exit_code,
                    final_code, stdoutRedirected, handlerInstalled >>

NextFmt ==
    \/ CallFormatRow
    \/ CallFormatSeparator

SpecFmt == InitFmt /\ [][NextFmt]_vars

-----------------------------------------------------------------------------
(* The start of a render called directly: parse_args on a command line, the *)
(* delimiter cli.main derives from its result, and the terminal query of    *)
(* the viewer's constructor.                                                *)

\* None, for an option whose value is a string.
None == "None"

\* int(token) for the numbers the command lines of the model give.
ParseInt(token) == CASE token = "10" -> 10 [] token = "20" -> 20

\* The defaults of the add_argument calls.  max_width None is written 0, as
\* max_col_width is.
ArgumentDefaults ==
    [ file |-> "-", delimiter |-> None, no_header |-> FALSE, min_width |-> 5,
      max_width |-> 0, style |-> "grid", colors |-> FALSE,
      color_list |-> "bg_cyan,bg_white" ]

RECURSIVE ParseFrom(_, _)
\* parser.parse_args on the tokens left, ns being the namespace so far.
ParseFrom(argv, ns) ==
    IF argv = << >> THEN ns
    ELSE LET t    == Head(argv)
             rest == SubSeq(argv, 3, Len(argv))
         IN  CASE t \in { "-d", "--delimiter" } ->
                    ParseFrom(rest, [ ns EXCEPT !.delimiter = argv[2] ])
               [] t = "--no-header" ->
                    ParseFrom(Tail(argv), [ ns EXCEPT !.no_header = TRUE ])
               [] t = "--min-width" ->
                    ParseFrom(rest, [ ns EXCEPT !.min_width = ParseInt(argv[2]) ])
               [] t = "--max-width" ->
                    ParseFrom(rest, [ ns EXCEPT !.max_width = ParseInt(argv[2]) ])
               [] t \in { "-s", "--style" } ->
                    ParseFrom(rest, [ ns EXCEPT !.style = argv[2] ])
               [] t = "--colors" ->
                    ParseFrom(Tail(argv), [ ns EXCEPT !.colors = TRUE ])
               [] t = "--color-list" ->
                    ParseFrom(rest, [ ns EXCEPT !.color_list = argv[2] ])
               [] OTHER ->
                    ParseFrom(Tail(argv), [ ns EXCEPT !.file = t ])

parse_args(argv) == ParseFrom(argv, ArgumentDefaults)

\* file.lower().endswith('.csv') for the file names of the model
EndsWithCsv(file) == file \in { "data.csv", "DATA.CSV" }

\* Lines 88-96 of cli.main: the delimiter handed to view_csv.
ResolveDelimiter(parsed_args) ==
    IF parsed_args.delimiter = None
    THEN IF parsed_args.file = "-" \/ ~EndsWithCsv(parsed_args.file)
         THEN "\t"
         ELSE ","
    ELSE parsed_args.delimiter

\* Command lines that parse: the file, then options in the order given here.
CommandLines ==
    { file \o delim \o head \o style \o width \o color :
        file  \in { << >>, << "data.csv" >>, << "DATA.CSV" >>, << "data.tsv" >> },
        delim \in { << >>, << "-d", ";" >>, << "--delimiter", "," >> },
        head  \in { << >>, << "--no-header" >> },
        style \in { << >>, << "-s", "simple" >> },
        width \in { << >>, << "--min-width", "10" >>, << "--max-width", "20" >> },
        color \in { << >>, << "--colors" >>, << "--color-list", "red,blue" >> } }

\* Terminals of several sizes, and a process without a terminal.
SetupTerminals ==
    { [ query |-> "ok", columns |-> c, lines |-> l ] :
        c \in { 20, 80, 120 }, l \in { 10, 24, 50 } }
      \cup { [ query |-> "unavailable", columns |-> 0, lines |-> 0 ] }

InitSetup ==
    /\ entry = "vl"
    /\ header = TRUE
    /\ min_col_width = 5
    /\ max_col_width = 0
    /\ border_style = "grid"
    /\ use_colors = FALSE
    /\ column_colors = DEFAULT_COLUMN_COLORS
    /\ terminal \in SetupTerminals
    /\ Constructed
    /\ pc = "setup"
    /\ Idle

\* parse_args(argv), the first statement of cli.main
CallParseArgs ==
    /\ pc = "setup"
    /\ call.fn = "none"
    /\ \E argv \in CommandLines :
         call' = [ fn |-> "parse_args", args |-> argv, ret |-> parse_args(argv) ]
    /\ UNCHANGED << config, pc, pulled, readerDone, col_widths, preview_rows,
                    idx, row_count, out, err, exc, sigpipe, exit_code,
                    final_code, stdoutRedirected, handlerInstalled >>

\* cli.main after parse_args, lines 88-96.
CallMainResolvesDelimiter ==
    /\ pc = "setup"
    /\ call.fn = "parse_args"
    /\ call' = [ fn |-> "main", args |-> call.args, parsed_args |-> call.ret,
                 delimiter |-> ResolveDelimiter(call.ret) ]
    /\ UNCHANGED << config, pc, pulled, readerDone, col_widths, preview_rows,
                    idx, row_count, out, err, exc, sigpipe, exit_code,
                    final_code, stdoutRedirected, handlerInstalled >>

\* viewer._get_terminal_size()
CallGetTerminalSize ==
    /\ pc = "setup"
    /\ call' = [ fn |-> "_get_terminal_size", ret |-> _get_terminal_size(terminal) ]
    /\ UNCHANGED << config, pc, pulled, readerDone, col_widths, preview_rows,
                    idx, row_count, out, err, exc, sigpipe, exit_code,
                    final_code, stdoutRedirected, handlerInstalled >>

NextSetup ==
    \/ CallParseArgs
    \/ CallMainResolvesDelimiter
    \/ CallGetTerminalSize

SpecSetup == InitSetup /\ [][NextSetup]_vars

-----------------------------------------------------------------------------
(* Properties *)

Range(f) == { f[x] : x \in DOMAIN f }

\* The row lines of the sink (the header line and the data lines), in order.
RowLines == SelectSeq(out, LAMBDA l : l.kind \in { "header", "row" })

\* view_csv ran to its end: cli.main returns 0 only from line 124, and a
\* direct call has returned without an exception.
Completed ==
    \/ exit_code = 0
    \/ entry = "view_csv" /\ pc = "done" /\ exc = "none"

BrokenPipeMessage == CliMessage("BrokenPipeError")

\* C1: when view_csv has run to its end, the row lines of the sink are the
\* renderings of the rows the reader yielded, one line per row, in the
\* reader's order: no pulled row is missing, repeated or out of place.
C1_EveryPulledRowRenderedOnceInOrder ==
    Completed =>
        /\ Len(RowLines) = Len(pulled)
        /\ \A i \in 1..Len(RowLines) :
              i <= Len(pulled) =>
                  /\ RowLines[i].src = i
                  /\ RowLines[i].text = _format_row(pulled[i], col_widths)

\* C2: when view_csv has run to its end, the summary is "Total rows: N" with
\* N the number of rows pulled from the reader.
C2_SummaryCountsPulledRows ==
    Completed =>
        /\ out # << >>
        /\ out[Len(out)].kind = "summary"
        /\ out[Len(out)].text = SummaryText(Len(pulled))

\* C3: a write that fails because the consumer of the pipe has exited is
\* never reported on stderr as an error, and the entry point then returns 0.
C3_BrokenPipeIsSilentSuccess ==
    sigpipe # "none" =>
        /\ BrokenPipeMessage \notin Range(err)
        /\ pc = "done" => final_code = 0

\* C4: with colors disabled, all row lines of the sink (header, buffered
\* rows, tail rows) have the same length.
C4_AllRowLinesSameLength ==
    ~use_colors =>
        \A i, j \in 1..Len(RowLines) :
            Len(RowLines[i].text) = Len(RowLines[j].text)

\* The fields of a row that a plan has columns for are no longer than their
\* columns.
Fits(row, widths) ==
    \A k \in 1..Min(Len(row), Len(widths)) : Len(row[k]) <= widths[k]

SeparatorMatchesRows ==
    \A row \in FmtRows :
        Fits(row, col_widths) => Len(call.ret) = Len(_format_row(row, col_widths))

\* C5 as stated: for each of the four styles, every plan and each position,
\* the separator line is as long as a row line of the plan (colors disabled,
\* fields no longer than their columns).
C5_SeparatorAsLongAsRowAllStyles ==
    ( /\ call.fn = "_format_separator"
      /\ call.position \in Positions
      /\ border_style \in StyleNames
      /\ ~use_colors )
        => SeparatorMatchesRows

\* C5 amended: for the styles simple, grid and minimal, every plan and each
\* position, the separator line is as long as a row line of the plan (colors
\* disabled, fields no longer than their columns); for the style none the
\* separator is the empty line.
C5_SeparatorAsLongAsRowBorderedStyles ==
    ( /\ call.fn = "_format_separator"
      /\ call.position \in Positions
      /\ border_style \in StyleNames
      /\ ~use_colors )
        => IF border_style = "none" THEN call.ret = << >>
           ELSE SeparatorMatchesRows

C5_Witness ==
    /\ call.fn = "_format_separator"
    /\ call.position = "middle"
    /\ border_style = "grid"
    /\ ~use_colors
    /\ col_widths = << 5, 7 >>
    /\ Len(call.ret) = 19
    /\ \E row \in FmtRows : Fits(row, col_widths) /\ Len(row) = 2

RECURSIVE SumSeq(_)
SumSeq(f) == IF Len(f) = 0 THEN 0 ELSE f[1] + SumSeq(Tail(f))

\* What C6 says a field is rendered as under the maximum width M.
TruncatedAsClaimed(cell, M) ==
    IF Len(cell) > M THEN SubSeq(cell, 1, M - 3) \o << ".", ".", "." >>
    ELSE cell

\* C6: with a maximum width M > 0 (colors disabled), _format_row renders a
\* field longer than M as its first M - 3 characters followed by "...", M
\* characters in all, and a field of at most M characters unchanged, each
\* padded to its column.
C6_FieldTruncatedToMaxWidth ==
    ( /\ call.fn = "_format_row"
      /\ max_col_width > 0
      /\ ~use_colors )
        => LET M == max_col_width
               v == << border_chars["v"] >>
               shown == [ k \in 1..Len(col_widths) |->
                            IF k <= Len(call.row)
                            THEN TruncatedAsClaimed(call.row[k], M)
                            ELSE << >> ]
           IN  /\ call.ret =
                    v \o Join([ k \in 1..Len(col_widths) |->
                                  << " " >> \o PadLeftAligned(shown[k], col_widths[k])
                                      \o << " " >> ], v) \o v
               /\ col_widths # << >> =>
                  Len(call.ret) =
                    1 + SumSeq([ k \in 1..Len(col_widths) |->
                                   3 + Max(col_widths[k],
                                           IF k <= Len(call.row)
                                           THEN Min(Len(call.row[k]), M)
                                           ELSE 0) ])

Kinds == [ i \in 1..Len(out) |-> out[i].kind ]

Rank(kind) ==
    CASE kind = "top" -> 1 [] kind = "header" -> 2 [] kind = "separator" -> 3
      [] kind = "row" -> 4 [] kind = "bottom" -> 5 [] kind = "summary" -> 6

\* C7: what is written follows the order top border, header, header
\* separator, rows, bottom border, summary, each but the rows at most once;
\* with a bordered style the first line written is the top border; when
\* view_csv has run to its end the last thing written is the blank line and
\* "Total rows: row_count", preceded (bordered style) by the bottom border,
\* which follows the last row line; and a non-empty source with header in a
\* bordered style gives top border, header, separator, the data rows, bottom
\* border, summary.
C7_EmissionsInStageOrder ==
    /\ \A i, j \in 1..Len(out) :
          i < j => \/ Rank(out[i].kind) < Rank(out[j].kind)
                   \/ out[i].kind = "row" /\ out[j].kind = "row"
    /\ (border_style # "none" /\ out # << >>) => out[1].kind = "top"
    /\ Completed =>
          /\ out # << >>
          /\ out[Len(out)] = Line("summary", SummaryText(row_count), 0)
          /\ border_style # "none" =>
                /\ Len(out) >= 3
                /\ out[Len(out) - 1].kind = "bottom"
          /\ (border_style # "none" /\ header /\ pulled # << >>) =>
                Kinds = << "top", "header", "separator" >>
                          \o [ k \in 1..(row_count - 1) |-> "row" ]
                          \o << "bottom", "summary" >>

C7_Witness ==
    /\ Completed
    /\ header
    /\ border_style = "simple"
    /\ Len(pulled) = MaxRows
    /\ Kinds = << "top", "header", "separator" >>
                 \o [ k \in 1..(row_count - 1) |-> "row" ]
                 \o << "bottom", "summary" >>
    /\ row_count >= 3

\* The header part of C8: a header line is written only with header enabled,
\* only for row 0 and at most once; it is followed at once by the one middle
\* separator in a bordered style and by none in the style none; with header
\* disabled or an empty source no header line and no separator is written and
\* row 0 is an ordinary data row.
HeaderOnlyForRowZero ==
    /\ \A i \in 1..Len(out) :
          out[i].kind = "header" =>
              /\ header /\ out[i].src = 1
              /\ \A j \in 1..Len(out) : out[j].kind = "header" => j = i
              /\ (border_style # "none" /\ i < Len(out)) =>
                    out[i + 1].kind = "separator"
    /\ \A i \in 1..Len(out) :
          out[i].kind = "separator" =>
              /\ border_style # "none"
              /\ i > 1 /\ out[i - 1].kind = "header"
    /\ (Completed /\ header /\ pulled # << >>) =>
          \E i \in 1..Len(out) :
              /\ out[i].kind = "header"
              /\ border_style # "none" => out[i + 1].kind = "separator"
    /\ (~header \/ pulled = << >>) =>
          /\ \A i \in 1..Len(out) : out[i].kind \notin { "header", "separator" }
          /\ \A i \in 1..Len(out) : out[i].src = 1 => out[i].kind = "row"

\* C8: the header part above, and when view_csv has run to its end every row
\* of the source appears in exactly one row line.
C8_HeaderIffEnabledAndEachRowOnce ==
    /\ HeaderOnlyForRowZero
    /\ Completed =>
          \A r \in 1..Len(pulled) :
              Cardinality({ i \in 1..Len(RowLines) : RowLines[i].src = r }) = 1

InputAccessErrors == { "FileNotFoundError", "PermissionError" }

\* C9: in a run of a console script a failure to open the source is in
\* flight only at the try of cli.main, with nothing returned yet (the viewer
\* neither handles nor retries it); cli.main then reports it on stderr and
\* returns 1; and cli.main returns 0 only when view_csv has run to its summary
\* without any report on stderr.
C9_InputAccessErrorsMapToExitCode1 ==
    /\ []((exc \in InputAccessErrors /\ entry \in { "vl", "vll" }) =>
             /\ pc = "cli_raised"
             /\ exit_code = -1
             /\ pulled = << >>)
    /\ [][ (exc \in InputAccessErrors /\ entry \in { "vl", "vll" }) =>
             /\ pc' = "cli_returned"
             /\ exit_code' = 1
             /\ err' = Append(err, CliMessage(exc))
             /\ exc' = "none" ]_vars
    /\ [](exit_code = 0 =>
             /\ out # << >>
             /\ out[Len(out)].kind = "summary"
             /\ err = << >>)

C9_Witness ==
    /\ pc = "cli_returned"
    /\ exit_code = 1
    /\ err = << "Error: File not found" >>
    /\ out = << >>

GlyphCharacters == { "+", "-", "|" }

Count(text, c) == Cardinality({ i \in 1..Len(text) : text[i] = c })

\* Occurrences of c in the fields of a row.
CountInRow(row, c) ==
    Cardinality({ p \in UNION { { << k, i >> : i \in 1..Len(row[k]) } :
                                k \in 1..Len(row) } :
                  row[p[1]][p[2]] = c })

\* C10: with the style none no top border, header separator or bottom border
\* is written, _format_separator gives the empty line for every position,
\* every glyph is one space, and a line of the output has no more '+', '-'
\* or '|' than the fields of the row it renders (none when it renders no
\* row).
C10_StyleNoneHasNoBorderGlyphs ==
    border_style = "none" =>
        /\ \A i \in 1..Len(out) :
              out[i].kind \notin { "top", "separator", "bottom" }
        /\ \A position \in Positions :
              _format_separator(col_widths, position) = << >>
        /\ \A g \in DOMAIN border_chars : border_chars[g] = " "
        /\ \A i \in 1..Len(out) : \A c \in GlyphCharacters :
              Count(out[i].text, c) <=
                  IF out[i].kind \in { "header", "row" }
                  THEN CountInRow(pulled[out[i].src], c)
                  ELSE 0

C10_Witness ==
    /\ border_style = "none"
    /\ Completed
    /\ header
    /\ Len(pulled) = MaxRows
    /\ \E i \in 1..Len(out) : out[i].kind = "row" /\ Count(out[i].text, "|") = 1
    /\ out[1].kind = "header"

-----------------------------------------------------------------------------

\* The glyphs of the style simple, as the documentation of the styles gives
\* them: '-' horizontally, '|' vertically, '+' at every corner and junction.
SimpleGlyphs ==
    [ h |-> "-", v |-> "|", tl |-> "+", tr |-> "+", bl |-> "+", br |-> "+",
      lc |-> "+", rc |-> "+", tc |-> "+", bc |-> "+", c |-> "+" ]

\* A border or separator line of the style simple.
SimpleSeparatorLine(widths) ==
    << "+" >> \o Join([ k \in 1..Len(widths) |-> Repeat("-", widths[k] + 2) ],
                      << "+" >>) \o << "+" >>

\* A row line of the style simple.
SimpleRowLine(row, widths) ==
    << "|" >> \o Join([ k \in 1..Len(widths) |-> FormatCell(row, widths, k - 1) ],
                      << "|" >>) \o << "|" >>

\* C11: with a style name that is none of simple, grid, minimal and none the
\* glyph lookup gives the glyphs of simple, and the render writes what the
\* style simple writes: a top border first, the separator after the header,
\* the bottom border before the summary, and every border, separator and row
\* line drawn with '+', '-' and '|'.
C11_UnknownStyleRendersAsSimple ==
    border_style \notin StyleNames =>
        /\ border_chars = SimpleGlyphs
        /\ \A i \in 1..Len(out) :
              out[i].text =
                  CASE out[i].kind \in { "top", "separator", "bottom" } ->
                          SimpleSeparatorLine(col_widths)
                    [] out[i].kind \in { "header", "row" } ->
                          SimpleRowLine(pulled[out[i].src], col_widths)
                    [] OTHER -> SummaryText(row_count)
        /\ out # << >> => out[1].kind = "top"
        /\ Completed =>
              /\ Len(out) >= 3
              /\ out[Len(out) - 1].kind = "bottom"
              /\ (header /\ preview_rows # << >>) =>
                    /\ out[2].kind = "header"
                    /\ out[3].kind = "separator"

C11_Witness ==
    /\ border_style = "invalid"
    /\ Completed
    /\ header
    /\ Len(pulled) = MaxRows
    /\ out[1].text = SimpleSeparatorLine(col_widths)
    /\ out[3].kind = "separator"
    /\ out[4].kind = "row" /\ out[4].text[1] = "|"

-----------------------------------------------------------------------------

Reset == << ESC, "[", "0", "m" >>

\* Occurrences of the sequence sub in text.
CountSub(text, sub) ==
    Cardinality({ p \in 1..(Len(text) - Len(sub) + 1) :
                    SubSeq(text, p, p + Len(sub) - 1) = sub })

\* The escape the color table gives for a name, empty for a name it lacks.
EscapeOf(name) == IF name \in DOMAIN COLORS THEN COLORS[name] ELSE << >>

\* C12: with colors enabled and a color plan c of length k, the row line is
\* the vertical glyphs around and between the cells of all columns of the
\* plan, the cell of column i being the escape of c[i mod k], the padded
\* text (blank for a column the row has no field for) and one reset; the
\* line holds exactly len(plan) resets, every vertical glyph after the first
\* follows a reset, and the line ends with reset and glyph.
C12_EachCellColoredByIndexAndReset ==
    ( /\ call.fn = "_format_row"
      /\ use_colors )
        => LET k == Len(column_colors)
               v == << border_chars["v"] >>
               cell(i) == EscapeOf(column_colors[(i % k) + 1])
                              \o PaddedCell(call.row, col_widths, i) \o Reset
           IN  /\ call.ret =
                     v \o Join([ n \in 1..Len(col_widths) |-> cell(n - 1) ], v) \o v
               /\ CountSub(call.ret, Reset) = Len(col_widths)
               /\ col_widths # << >> =>
                     SubSeq(call.ret, Len(call.ret) - 4, Len(call.ret)) = Reset \o v

\* Two colors over three columns, the row shorter than the plan.
C12_Witness ==
    /\ call.fn = "_format_row"
    /\ use_colors
    /\ column_colors = << "bg_cyan", "bg_white" >>
    /\ Len(col_widths) = 3
    /\ Len(call.row) = 2
    /\ border_style = "simple"
    /\ SubSeq(call.ret, 1, 6) = << "|" >> \o COLORS["bg_cyan"]
    /\ CountSub(call.ret, COLORS["bg_cyan"]) = 2
    /\ CountSub(call.ret, COLORS["bg_white"]) = 1
    /\ CountSub(call.ret, Reset) = 3

RECURSIVE StripEscapes(_)
\* text without its escape sequences (each runs from ESC to the next 'm').
StripEscapes(text) ==
    IF text = << >> THEN << >>
    ELSE IF Head(text) = ESC
         THEN LET m == CHOOSE p \in 1..Len(text) :
                          /\ text[p] = "m"
                          /\ \A q \in 1..(p - 1) : text[q] # "m"
              IN  StripEscapes(SubSeq(text, m + 1, Len(text)))
         ELSE << Head(text) >> \o StripEscapes(Tail(text))

\* Columns of the plan whose color name is in the color table.
KnownColorColumns ==
    { n \in 1..Len(col_widths) :
        column_colors[((n - 1) % Len(column_colors)) + 1] \in DOMAIN COLORS }

\* C13: with colors enabled, whatever names the color plan holds, the row
\* line is rendered; without its escape sequences it is the line rendered
\* with colors disabled (same text, same padding); and it holds one escape
\* per column for the reset and one more only for the columns whose color
\* name is in the table, so a cell with an unknown name has no color-setting
\* escape.
C13_UnknownColorIsEmptyEscape ==
    ( /\ call.fn = "_format_row"
      /\ use_colors )
        => LET v == << border_chars["v"] >>
           IN  /\ StripEscapes(call.ret) =
                     v \o Join([ n \in 1..Len(col_widths) |->
                                   PaddedCell(call.row, col_widths, n - 1) ], v) \o v
               /\ Count(call.ret, ESC) =
                     Len(col_widths) + Cardinality(KnownColorColumns)

\* The second of three columns has a name the table lacks.
C13_Witness ==
    /\ call.fn = "_format_row"
    /\ use_colors
    /\ column_colors = << "red", "nosuchcolor", "bg_blue" >>
    /\ Len(col_widths) = 3
    /\ Len(call.row) = 3
    /\ Count(call.ret, ESC) = 5
    /\ CountSub(call.ret, COLORS["red"]) = 1
    /\ CountSub(call.ret, COLORS["bg_blue"]) = 1

-----------------------------------------------------------------------------

\* C14: when the source has ended without yielding a row, the plan and the
\* preview buffer are empty, nothing but a failed write raises, no header
\* line and no header separator is written (header enabled or not), and when
\* view_csv has run to its end the output is the top border and the bottom
\* border, each the two corner glyphs (neither with the style none), and the
\* summary "Total rows: 0".
C14_EmptySourceRendersEmptyShell ==
    (readerDone /\ pulled = << >>) =>
        /\ col_widths = << >>
        /\ preview_rows = << >>
        /\ exc # "none" => sigpipe # "none"
        /\ \A i \in 1..Len(out) : out[i].kind \notin { "header", "separator", "row" }
        /\ Completed =>
              out = IF border_style = "none"
                    THEN << Line("summary", SummaryText(0), 0) >>
                    ELSE << Line("top", << border_chars["tl"], border_chars["tr"] >>, 0),
                            Line("bottom", << border_chars["bl"], border_chars["br"] >>, 0),
                            Line("summary", SummaryText(0), 0) >>

C14_Witness ==
    /\ readerDone /\ pulled = << >>
    /\ Completed
    /\ header
    /\ border_style = "simple"
    /\ Kinds = << "top", "bottom", "summary" >>
    /\ out[1].text = << "+", "+" >>
    /\ out[3].text = << "\n", "T", "o", "t", "a", "l", " ", "r", "o", "w", "s",
                        ":", " ", "0" >>

-----------------------------------------------------------------------------

\* The rows and the columns of the terminal, with the documented fallback of
\* 24 rows and 80 columns when it cannot be queried.
TerminalRows == IF terminal.query = "ok" THEN terminal.lines ELSE 24
TerminalColumns == IF terminal.query = "ok" THEN terminal.columns ELSE 80

\* C15: _get_terminal_size returns (rows, columns) of the terminal, 24 rows
\* and 80 columns when the terminal cannot be queried, and the viewer's
\* term_height is the rows and its term_width the columns.
C15_TerminalSizeIsRowsThenColumns ==
    /\ term_height = TerminalRows
    /\ term_width = TerminalColumns
    /\ call.fn = "_get_terminal_size" =>
          call.ret = << TerminalRows, TerminalColumns >>

\* Sum of (width_i + 3), plus 1: the length of a line drawn over the plan.
TotalRenderedWidth(widths) ==
    SumSeq([ k \in 1..Len(widths) |-> widths[k] + 3 ]) + 1

\* Sum of max(0, width_i - min_col_width).
ReducibleSlack(widths) ==
    SumSeq([ k \in 1..Len(widths) |-> Max(0, widths[k] - min_col_width) ])

\* C16: when the total rendered width of the planner's plan exceeds the
\* terminal's columns and the reducible slack is at least the excess, the
\* widths used for rendering are reduced to fit: no border, separator or row
\* line is longer than the terminal's columns plus one.
C16_RenderedWidthFitsTerminal ==
    ( /\ TotalRenderedWidth(col_widths) > TerminalColumns
      /\ ReducibleSlack(col_widths) >=
             TotalRenderedWidth(col_widths) - TerminalColumns )
        => \A i \in 1..Len(out) :
              out[i].kind # "summary" => Len(out[i].text) <= TerminalColumns + 1

\* C17: parse_args on a command line that is a file path and nothing else
\* gives that file, the delimiter ',', no_header false, min_width 5, max_width
\* None, style 'grid', colors false and color_list 'bg_cyan,bg_white'.
C17_DefaultsWithDelimiterComma ==
    ( /\ call.fn = "parse_args"
      /\ Len(call.args) = 1 )
        => call.ret = [ file |-> call.args[1], delimiter |-> ",",
                        no_header |-> FALSE, min_width |-> 5, max_width |-> 0,
                        style |-> "grid", colors |-> FALSE,
                        color_list |-> "bg_cyan,bg_white" ]

-----------------------------------------------------------------------------

\* The planner has returned and the controller has not yet pulled a row.
PlannerReturned == pc \in { "top", "header", "hsep", "preview" }

\* C18: when the planner has returned, the rows pulled from the reader are
\* the rows of the preview buffer and no other: min(cap, available) of them,
\* so the next row pulled is the first that is not in the buffer.
C18_PlannerPullsOnlyBufferedRows ==
    PlannerReturned =>
        /\ pulled = preview_rows
        /\ Len(pulled) <= num_preview_rows
        /\ Len(pulled) < num_preview_rows => readerDone

-----------------------------------------------------------------------------

\* C19: at every point the preview buffer holds at most num_preview_rows
\* rows, the first rows the reader yielded; and in the streaming tail the
\* buffer is left as it is: a step that pulls a row pulls one row and either
\* writes its line at once or fails at the write.
C19_BufferBoundedTailUnbuffered ==
    /\ [](/\ Len(preview_rows) <= num_preview_rows
          /\ Len(preview_rows) <= Len(pulled)
          /\ \A k \in 1..Len(preview_rows) : preview_rows[k] = pulled[k])
    /\ [][ pc = "tail" =>
             /\ preview_rows' = preview_rows
             /\ pulled' # pulled =>
                   /\ Len(pulled') = Len(pulled) + 1
                   /\ SubSeq(pulled', 1, Len(pulled)) = pulled
                   /\ \/ out' = Append(out, Line("row",
                                     _format_row(pulled'[Len(pulled')], col_widths),
                                     Len(pulled')))
                      \/ out' = out /\ exc' = "BrokenPipeError" ]_vars

\* A source longer than the cap, its last row pulled and written in the tail.
C19_Witness ==
    /\ pc = "tail"
    /\ Len(pulled) = MaxRows
    /\ Len(preview_rows) = num_preview_rows
    /\ MaxRows > num_preview_rows + 1
    /\ out[Len(out)].kind = "row"
    /\ out[Len(out)].src = MaxRows

-----------------------------------------------------------------------------

\* The greatest number of fields of a row of rows, 0 when there is no row.
MaxFieldCount(rows) ==
    IF rows = << >> THEN 0
    ELSE CHOOSE n \in { Len(rows[k]) : k \in 1..Len(rows) } :
            \A k \in 1..Len(rows) : Len(rows[k]) <= n

\* C20: the plan has as many columns as the longest row of the preview buffer
\* has fields (none for an empty buffer); while the planner scans, a row
\* never removes a column or lowers a width; and once the planner has
\* returned no step changes the plan, whatever rows the tail yields.
C20_PlanLengthIsMaxFieldCountAndFrozen ==
    /\ [](Len(col_widths) = MaxFieldCount(preview_rows))
    /\ [][ (pc = "plan" /\ pc' = "plan") =>
             /\ Len(col_widths') >= Len(col_widths)
             /\ \A k \in 1..Len(col_widths) : col_widths'[k] >= col_widths[k] ]_vars
    /\ [][ pc # "plan" => col_widths' = col_widths ]_vars

\* A row of the tail with more fields than the plan has columns, and a field
\* longer than every column, has been written.
C20_Witness ==
    /\ pc = "tail"
    /\ Len(pulled) > Len(preview_rows) + 1
    /\ out[Len(out)].kind = "row"
    /\ out[Len(out)].src = Len(pulled)
    /\ Len(col_widths) = 1
    /\ Len(pulled[Len(pulled)]) = 3
    /\ Len(pulled[Len(pulled)][3]) > col_widths[1]

-----------------------------------------------------------------------------

\* The greatest length of a field at index i (1-based) over the rows that
\* have one, 0 when no row has.
GreatestFieldLength(rows, i) ==
    LET lengths == { Len(rows[k][i]) : k \in { r \in 1..Len(rows) : Len(rows[r]) >= i } }
    IN  IF lengths = { } THEN 0
        ELSE CHOOSE n \in lengths : \A m \in lengths : m <= n

\* C21: once the planner has returned, the width of every column of the plan
\* is the greatest field length of the preview buffer at that index, raised
\* to min_col_width and then, with a maximum configured, lowered to
\* max_col_width; so it is at least min_col_width without a maximum and at
\* most max_col_width with one.
C21_WidthIsClampedGreatestFieldLength ==
    pc \notin { "main", "cli_main", "plan" } =>
        \A i \in 1..Len(col_widths) :
            LET raised == Max(GreatestFieldLength(preview_rows, i), min_col_width)
            IN  /\ col_widths[i] = IF max_col_width # 0
                                   THEN Min(raised, max_col_width)
                                   ELSE raised
                /\ max_col_width = 0 => col_widths[i] >= min_col_width
                /\ max_col_width # 0 => col_widths[i] <= max_col_width

\* The maximum is below the minimum and wins; one column is narrower than a
\* field of the preview.
C21_Witness ==
    /\ pc = "tail"
    /\ max_col_width # 0 /\ max_col_width < min_col_width
    /\ Len(col_widths) = 3
    /\ \A i \in 1..3 : col_widths[i] = max_col_width
    /\ GreatestFieldLength(preview_rows, 3) > max_col_width
    /\ GreatestFieldLength(preview_rows, 1) < max_col_width

-----------------------------------------------------------------------------

\* The cell text wrapped as _format_row wraps the cell of column i (0-based):
\* as it is with colors disabled, between the column's escape and a reset
\* with colors enabled.
Wrapped(text, i) ==
    IF use_colors
    THEN EscapeOf(column_colors[(i % Len(column_colors)) + 1]) \o text \o Reset
    ELSE text

\* C22: the line _format_row returns has exactly len(plan) cells between its
\* vertical glyphs, whatever the number of fields of the row: the cell of a
\* column the row has a field for shows that field, the cell of a column it
\* has none for is width + 2 spaces, and the fields at index len(plan) and
\* beyond show nowhere (the line is that of the row cut to len(plan) fields).
C22_ExactlyPlanLengthCells ==
    call.fn = "_format_row" =>
        LET v == << border_chars["v"] >>
            n == Len(col_widths)
            kept == SubSeq(call.row, 1, Min(Len(call.row), n))
            cell(k) == IF k <= Len(call.row)
                       THEN Wrapped(PaddedCell(kept, col_widths, k - 1), k - 1)
                       ELSE Wrapped(Repeat(" ", col_widths[k] + 2), k - 1)
        IN  /\ call.ret = v \o Join([ k \in 1..n |-> cell(k) ], v) \o v
            /\ ~use_colors =>
                  Len(call.ret) >= (n + 1) + SumSeq([ k \in 1..n |-> col_widths[k] + 2 ])

\* A row of one field under a plan of three columns.
C22_Witness ==
    /\ call.fn = "_format_row"
    /\ ~use_colors
    /\ border_style = "simple"
    /\ max_col_width = 0
    /\ col_widths = << 5, 5, 7 >>
    /\ call.row = << CellA >>
    /\ call.ret = << "|", " ", "a", " ", " ", " ", " ", " ", "|" >>
                      \o Repeat(" ", 7) \o << "|" >> \o Repeat(" ", 9) \o << "|" >>

-----------------------------------------------------------------------------

\* C23: from the end of the loop over the buffered rows on, row_count is the
\* number of row lines written so far (the header line and the data lines),
\* and the summary, once written, is "Total rows: N" with N the number of row
\* lines of the sink, for a source of any length and header enabled or not.
C23_SummaryCountsRowLinesWritten ==
    /\ pc \in { "tail", "bottom", "summary" } => row_count = Len(RowLines)
    /\ \A i \in 1..Len(out) :
          out[i].kind = "summary" => out[i].text = SummaryText(Len(RowLines))

\* A source longer than the cap, with a header line: written and counted.
C23_Witness ==
    /\ Completed
    /\ header
    /\ Len(pulled) = MaxRows
    /\ Len(pulled) > num_preview_rows
    /\ out[Len(out)].kind = "summary"
    /\ Len(RowLines) = MaxRows - 1
    /\ RowLines[1].kind = "header"
    /\ row_count = MaxRows - 1

-----------------------------------------------------------------------------

\* The reports cli.main prints for a source that cannot be opened.
InputAccessMessages == { CliMessage(e) : e \in InputAccessErrors }

\* C24: whatever is in the sink was written after the first pull from the
\* reader (a row was yielded, or the source had ended); and when that first
\* pull fails to open the source the sink is empty and stays empty: while
\* the error is in flight, after cli.main has reported it, and when a direct
\* call of view_csv has raised it.
C24_NothingWrittenBeforeFirstPull ==
    /\ out # << >> => (pulled # << >> \/ readerDone)
    /\ ( \/ exc \in InputAccessErrors
         \/ Range(err) \cap InputAccessMessages # { } )
          => /\ out = << >>
             /\ pulled = << >>
             /\ col_widths = << >>

\* A direct call of view_csv has raised the error of the open.
C24_Witness ==
    /\ entry = "view_csv"
    /\ pc = "done"
    /\ exc = "PermissionError"
    /\ out = << >>

-----------------------------------------------------------------------------

\* C25: in a render of a source of at most num_preview_rows rows, with colors
\* disabled, a style other than none and max_col_width unset or at least 3,
\* every border, separator and row line written has the same length: the sum
\* of (width_i + 3) plus 1 for a plan with columns, and the two corner or
\* vertical glyphs for the empty plan.
C25_AllLinesSameLengthWithinCap ==
    ( /\ ~use_colors
      /\ border_style # "none"
      /\ max_col_width = 0 \/ max_col_width >= 3
      /\ Len(pulled) <= num_preview_rows )
        => \A i \in 1..Len(out) :
              out[i].kind # "summary" =>
                  Len(out[i].text) = IF col_widths = << >> THEN 2
                                     ELSE TotalRenderedWidth(col_widths)

\* A completed render of a full preview with a field longer than the
\* maximum, truncated to fit its column.
C25_Witness ==
    /\ Completed
    /\ border_style = "grid"
    /\ header
    /\ max_col_width = 4
    /\ Len(pulled) = num_preview_rows
    /\ Len(col_widths) = 3
    /\ \E k \in 1..Len(pulled) : Len(pulled[k]) = 3
    /\ \A i \in 1..(Len(out) - 1) : Len(out[i].text) = 22
    /\ Len(out) = num_preview_rows + 4

-----------------------------------------------------------------------------

\* C26: when pager.main has returned, on whichever path (cli.main returned,
\* a SystemExit of the command line parser or of sigpipe_handler, a broken
\* pipe, less not started), sys.stdout is the stream it was on entry and
\* SIGPIPE has its original handler; stdout is the pager's pipe only while
\* pager.main is running with its handler installed, and never in a run
\* that did not go through pager.main.
C26_PagerRestoresStdoutAndHandler ==
    /\ pc = "done" => (~stdoutRedirected /\ ~handlerInstalled)
    /\ (entry = "vll" /\ pc = "done") => final_code \in { 0, 1, 2 }
    /\ stdoutRedirected =>
          /\ entry = "vll"
          /\ handlerInstalled
          /\ pc \notin { "main", "finally", "done" }
    /\ handlerInstalled => entry = "vll"

\* pager.main has returned after sigpipe_handler raised SystemExit.
C26_Witness ==
    /\ entry = "vll"
    /\ pc = "done"
    /\ sigpipe = "handled"
    /\ final_code = 0
    /\ ~stdoutRedirected
    /\ ~handlerInstalled
    /\ out # << >>

====
